---- MODULE Spec2Model ----
\* Model of the shopping-assistant frontend: the search page
\* (frontend/src/pages/search.tsx), the chat input (ChatInterface.tsx),
\* the refinement panel (RefinementPanel, in ProductCard.tsx) and the
\* remote API client (utils/api.ts).
\*
\* JavaScript strings are TLA+ strings; objects with optional fields are
\* records whose DOMAIN holds exactly the fields that are present.
\* Message ids (uuidv4) and timestamps are not modelled: no handler reads them.
EXTENDS Integers, Sequences, FiniteSets, TLC

----------------------------------------------------------------------------
\* Bounds of the model.

\* number of network calls issued in one page session
MaxCalls == 2
\* number of panel refinements applied while the panel's inputs are explored
MaxApplies == 1
\* length of the feature lists handed to the refinement query
MaxFeatureCount == 2

----------------------------------------------------------------------------
\* Input domains.

\* values of the ?q= URL parameter; "" stands for an absent or empty q
QueryValues == {"", "mouse"}
\* texts typed in the chat input
ChatInputs == {" ", " cheaper "}
\* numbers typed in the panel's price inputs
PriceInputs == {20}
\* texts typed in the panel's feature input
FeatureInputs == {"", " wireless "}
\* product lists a server response can carry (a product is named by its title)
ProductLists == {<<>>, <<"p1">>}
\* prices and feature names of the options handed to the refinement query
QueryPrices == {0, 20, 100}
QueryFeatures == {"wireless", "waterproof"}
\* suggestion lists a server response can carry
SuggestionLists == {<<>>, <<"Add brand preference">>}
\* normalised queries a server response can carry
ProcessedQueries == {"mouse"}
\* how a POST can fail in axios: no connection, the 30000 ms timeout of
\* api.ts line 8, or a response whose status is not 2xx (with its body)
TransportFailures ==
    {[kind |-> "network"], [kind |-> "timeout"],
     [kind |-> "status", status |-> 500, detail |-> "Search failed: index down"]}

----------------------------------------------------------------------------
\* String helpers: what the JavaScript string operations compute.

Digits == "0123456789"

RECURSIVE NatToString(_)
NatToString(n) ==
    IF n < 10 THEN SubSeq(Digits, n + 1, n + 1)
    ELSE NatToString(n \div 10) \o SubSeq(Digits, (n % 10) + 1, (n % 10) + 1)

\* `${n}` for an integer n
NumToString(n) == IF n < 0 THEN "-" \o NatToString(0 - n) ELSE NatToString(n)

\* Array.prototype.join
RECURSIVE Join(_, _)
Join(list, sep) ==
    IF Len(list) = 0 THEN ""
    ELSE IF Len(list) = 1 THEN list[1]
    ELSE list[1] \o sep \o Join(Tail(list), sep)

IsSpace(c) == c \in {" ", "\t", "\n"}

RECURSIVE TrimStart(_)
TrimStart(s) ==
    IF Len(s) > 0 /\ IsSpace(SubSeq(s, 1, 1)) THEN TrimStart(SubSeq(s, 2, Len(s)))
    ELSE s

RECURSIVE TrimEnd(_)
TrimEnd(s) ==
    IF Len(s) > 0 /\ IsSpace(SubSeq(s, Len(s), Len(s)))
    THEN TrimEnd(SubSeq(s, 1, Len(s) - 1))
    ELSE s

\* String.prototype.trim
Trim(s) == TrimEnd(TrimStart(s))

\* Array.prototype.includes
Includes(list, x) == \E i \in 1..Len(list) : list[i] = x

\* Array.prototype.filter(f => f # x)
RECURSIVE FilterOut(_, _)
FilterOut(list, x) ==
    IF Len(list) = 0 THEN <<>>
    ELSE IF list[1] = x THEN FilterOut(Tail(list), x)
    ELSE <<list[1]>> \o FilterOut(Tail(list), x)

----------------------------------------------------------------------------
\* State.

VARIABLES
    q,                  \* router.query.q
    messages,           \* useState<ChatMessage[]>
    products,           \* useState<Product[]>
    isLoading,          \* useState(false)
    sessionId,          \* useState<string>('')
    suggestions,        \* useState<string[]>
    isRefinementOpen,   \* useState(false)
    refinementOptions,  \* useState<Partial<RefinementOptions>>({})
    priceRange,         \* RefinementPanel: useState({min, max})
    newFeature,         \* RefinementPanel: useState('')
    features,           \* RefinementPanel: useState<string[]>
    verifiedOnly,       \* RefinementPanel: useState(boolean)
    sent,               \* every network call issued, in order, with its outcome
    nextSid,            \* server: number of session ids issued so far
    delivered           \* the session ids responses have delivered, in order

vars == <<q, messages, products, isLoading, sessionId, suggestions,
          isRefinementOpen, refinementOptions, priceRange, newFeature,
          features, verifiedOnly, sent, nextSid, delivered>>

pageVars == <<q, messages, products, isLoading, sessionId, suggestions,
              isRefinementOpen, refinementOptions>>
panelVars == <<priceRange, newFeature, features, verifiedOnly>>
netVars == <<sent, nextSid, delivered>>

\* the object {}
EmptyObject == [x \in {} |-> TRUE]

----------------------------------------------------------------------------
\* Refinement query (search.tsx, handleApplyRefinements, lines 135-148).
\* options is a Partial<RefinementOptions>: a record holding any of the fields
\* price_range, features, verified_reviews_only.

HasPriceRange(options) == "price_range" \in DOMAIN options

HasFeaturesField(options) == "features" \in DOMAIN options

HasFeatures(options) ==
    "features" \in DOMAIN options /\ Len(options.features) > 0

HasVerified(options) ==
    "verified_reviews_only" \in DOMAIN options /\ options.verified_reviews_only

PriceClauseSwapped(options) ==
    " with budget between $" \o NumToString(options.price_range.max)
        \o " and $" \o NumToString(options.price_range.min)

PriceClause(options) ==
    " with budget between $" \o NumToString(options.price_range.min)
        \o " and $" \o NumToString(options.price_range.max)

FeatureClause(options) ==
    " including features: " \o Join(options.features, ", ")

VerifiedClause == " with verified reviews only"

RefinementQueryFeaturesFirst(options) ==
    LET start == "Refine my search"
        withFeatures == IF HasFeatures(options)
                        THEN start \o FeatureClause(options) ELSE start
        withPrice == IF HasPriceRange(options)
                     THEN withFeatures \o PriceClause(options) ELSE withFeatures
    IN  IF HasVerified(options) THEN withPrice \o VerifiedClause
        ELSE withPrice

RefinementQuery(options) ==
    LET start == "Refine my search"
        withPrice == IF HasPriceRange(options)
                     THEN start \o PriceClause(options) ELSE start
        withFeatures == IF HasFeatures(options)
                        THEN withPrice \o FeatureClause(options) ELSE withPrice
    IN  IF HasVerified(options) THEN withFeatures \o VerifiedClause
        ELSE withFeatures

----------------------------------------------------------------------------
\* Chat messages (types/index.ts, ChatMessage) built by the handlers.

UserMessage(content) == [type |-> "user", content |-> content]

InitialAssistantMessage(response) ==
    [type |-> "assistant",
     content |-> "I found " \o NumToString(Len(response.products))
        \o " great options for \"" \o response.query_processed
        \o "\". Here are the top recommendations based on reviews, price, and features.",
     products |-> response.products]

SendAssistantMessageSorryWhenEmpty(response) ==
    IF Len(response.products) = 0
    THEN [type |-> "assistant",
          content |-> "Sorry, I encountered an error. Please try rephrasing your request."]
    ELSE [type |-> "assistant",
          content |-> "Updated search results! I found "
             \o NumToString(Len(response.products))
             \o " products that match your refined criteria.",
          products |-> response.products]

SendAssistantMessage(response) ==
    [type |-> "assistant",
     content |-> "Updated search results! I found "
        \o NumToString(Len(response.products))
        \o " products that match your refined criteria.",
     products |-> response.products]

ApplyAssistantMessage(response) ==
    [type |-> "assistant",
     content |-> "Perfect! I've refined your search based on your preferences. Here are "
        \o NumToString(Len(response.products)) \o " updated recommendations.",
     products |-> response.products]

InitialErrorMessageGeneric ==
    [type |-> "assistant",
     content |-> "Sorry, I encountered an error. Please try rephrasing your request."]

\* the errorMessage objects of the three catch blocks
InitialErrorMessage ==
    [type |-> "assistant",
     content |-> "Sorry, I encountered an error while searching for products. Please try again."]

SendErrorMessage ==
    [type |-> "assistant",
     content |-> "Sorry, I encountered an error. Please try rephrasing your request."]

ApplyErrorMessage ==
    [type |-> "assistant",
     content |-> "Sorry, I had trouble refining your search. Please try again."]

----------------------------------------------------------------------------
\* Requests (types/index.ts, SearchRequest) built by the handlers, with the
\* API operation they are handed to.

InitialRequest(query) == [op |-> "search", req |-> [query |-> query]]

SendRequestAlwaysSearch(message, sid) ==
    [op |-> "search", req |-> [query |-> message]]

\* sid is the sessionId the handler's closure holds
SendRequest(message, sid) ==
    IF sid # ""
    THEN [op |-> "refine", req |-> [query |-> message, session_id |-> sid]]
    ELSE [op |-> "search", req |-> [query |-> message]]

ApplyRequestBareQuery(options, sid) ==
    [op |-> "refine",
     req |-> [query |-> "Refine my search", session_id |-> sid]
             @@ (IF "price_range" \in DOMAIN options
                 THEN [price_range |-> options.price_range] ELSE EmptyObject)
             @@ (IF "features" \in DOMAIN options
                 THEN [features_to_add |-> options.features] ELSE EmptyObject)]

\* options.price_range and options.features are passed on as they are; a
\* field of options that is absent is undefined in the request and is left
\* out of its JSON body
ApplyRequest(options, sid) ==
    [op |-> "refine",
     req |-> [query |-> RefinementQuery(options), session_id |-> sid]
             @@ (IF "price_range" \in DOMAIN options
                 THEN [price_range |-> options.price_range] ELSE EmptyObject)
             @@ (IF "features" \in DOMAIN options
                 THEN [features_to_add |-> options.features] ELSE EmptyObject)]

\* a call as recorded in sent: who issued it and with which argument, what
\* was sent, the sessionId state when it was issued, and its outcome so far
\* (what the transport did, what the API function threw, what the handler's
\* catch block showed)
Call(handler, args, request, sid) ==
    [handler |-> handler, args |-> args, op |-> request.op, req |-> request.req,
     sidAtIssue |-> sid, outcome |-> "pending", cause |-> [kind |-> "none"],
     error |-> "", shown |-> ""]

Pending == {i \in 1..Len(sent) : sent[i].outcome = "pending"}

----------------------------------------------------------------------------
\* The server (not part of the frontend): a search opens a session under a
\* fresh id, a refine of a session the server issued answers under that id,
\* a refine under any other id opens a session too.

Sid(n) == "sid-" \o NatToString(n)

Issued == {Sid(n) : n \in 1..nextSid}

KnowsSession(call) == call.op = "refine" /\ call.req.session_id \in Issued

ResponseSid(call) ==
    IF KnowsSession(call) THEN call.req.session_id ELSE Sid(nextSid + 1)

\* the SearchResponse bodies the server can answer a call with
Responses(call) ==
    {[products |-> p, session_id |-> ResponseSid(call),
      query_processed |-> qp, suggestions |-> sg] :
        p \in ProductLists, qp \in ProcessedQueries, sg \in SuggestionLists}

\* api.ts: response.data is returned to the caller
ApiSuccess(i, response) ==
    /\ sent' = [sent EXCEPT ![i].outcome = "ok"]
    /\ nextSid' = IF KnowsSession(sent[i]) THEN nextSid ELSE nextSid + 1
    /\ delivered' = Append(delivered, response.session_id)

ApiErrorFromBody(op, cause) ==
    IF cause.kind = "status" THEN cause.detail
    ELSE IF op = "search" THEN "Failed to search products"
    ELSE "Failed to refine search"

\* api.ts, lines 15-18 and 25-28: the catch blocks log what was caught and
\* throw a new Error whose message is fixed per operation
ApiError(op, cause) ==
    IF op = "search" THEN "Failed to search products"
    ELSE "Failed to refine search"

\* api.post rejects with cause, the API function throws ApiError, and the
\* handler's catch block shows errorMessage
ApiFailure(i, cause, errorMessage) ==
    /\ sent' = [sent EXCEPT ![i].outcome = "failed",
                            ![i].cause = cause,
                            ![i].error = ApiError(sent[i].op, cause),
                            ![i].shown = errorMessage.content]
    /\ UNCHANGED <<nextSid, delivered>>

----------------------------------------------------------------------------
\* Initial state: the useState initial values, before the router is ready.

\* RefinementPanel, lines 131-134: currentOptions.price_range?.min || 0, ...
PanelInitialPrice(currentOptions) ==
    [min |-> IF HasPriceRange(currentOptions) /\ currentOptions.price_range.min # 0
             THEN currentOptions.price_range.min ELSE 0,
     max |-> IF HasPriceRange(currentOptions) /\ currentOptions.price_range.max # 0
             THEN currentOptions.price_range.max ELSE 500]

PageInit ==
    /\ q = ""
    /\ messages = <<>>
    /\ products = <<>>
    /\ isLoading = FALSE
    /\ sessionId = ""
    /\ suggestions = <<>>
    /\ isRefinementOpen = FALSE
    /\ refinementOptions = EmptyObject
    /\ priceRange = PanelInitialPrice(EmptyObject)
    /\ newFeature = ""
    /\ features = <<>>
    /\ verifiedOnly = FALSE
    /\ sent = <<>>
    /\ nextSid = 0
    /\ delivered = <<>>

----------------------------------------------------------------------------
\* search.tsx: the three handlers, each up to its await ...

\* handleInitialSearch, lines 29-43
HandleInitialSearch(query) ==
    /\ isLoading' = TRUE
    /\ messages' = <<UserMessage(query)>>
    /\ sent' = Append(sent, Call("initial", query, InitialRequest(query), sessionId))
    /\ UNCHANGED <<products, sessionId, suggestions, refinementOptions,
                   nextSid, delivered>>

\* handleSendMessage, lines 75-91
HandleSendMessage(message) ==
    /\ isLoading' = TRUE
    /\ messages' = Append(messages, UserMessage(message))
    /\ sent' = Append(sent, Call("send", message,
                             SendRequest(message, sessionId), sessionId))
    /\ UNCHANGED <<products, sessionId, suggestions, refinementOptions,
                   nextSid, delivered>>

\* handleApplyRefinements, lines 150-156
ApplyUserMessage(options) == UserMessage(RefinementQuery(options))

HandleApplyRefinementsMerging(options) ==
    /\ refinementOptions' = options @@ refinementOptions
    /\ isLoading' = TRUE
    /\ messages' = Append(messages, ApplyUserMessage(options))
    /\ sent' = Append(sent, Call("apply", options,
                             ApplyRequest(options, sessionId), sessionId))
    /\ UNCHANGED <<products, sessionId, suggestions, nextSid, delivered>>

\* handleApplyRefinements, lines 131-166
HandleApplyRefinements(options) ==
    /\ refinementOptions' = options
    /\ isLoading' = TRUE
    /\ messages' = Append(messages, ApplyUserMessage(options))
    /\ sent' = Append(sent, Call("apply", options,
                             ApplyRequest(options, sessionId), sessionId))
    /\ UNCHANGED <<products, sessionId, suggestions, nextSid, delivered>>

\* ... and from the await on: the try block's remainder when the call
\* returns, the catch block when it throws, then the finally block.

\* handleInitialSearch, lines 45-58 and 70-72
InitialSearchSucceeds(i) ==
    /\ i \in Pending /\ sent[i].handler = "initial"
    /\ \E response \in Responses(sent[i]) :
        /\ products' = response.products
        /\ sessionId' = response.session_id
        /\ suggestions' = response.suggestions
        /\ messages' = Append(messages, InitialAssistantMessage(response))
        /\ ApiSuccess(i, response)
    /\ isLoading' = FALSE
    /\ UNCHANGED <<q, isRefinementOpen, refinementOptions, panelVars>>

InitialSearchFailsResetting(i) ==
    /\ i \in Pending /\ sent[i].handler = "initial"
    /\ \E cause \in TransportFailures : ApiFailure(i, cause, InitialErrorMessage)
    /\ messages' = Append(messages, InitialErrorMessage)
    /\ sessionId' = ""
    /\ suggestions' = <<>>
    /\ isLoading' = FALSE
    /\ UNCHANGED <<q, products, isRefinementOpen, refinementOptions, panelVars>>

\* handleInitialSearch, lines 59-72
InitialSearchFails(i) ==
    /\ i \in Pending /\ sent[i].handler = "initial"
    /\ \E cause \in TransportFailures : ApiFailure(i, cause, InitialErrorMessage)
    /\ messages' = Append(messages, InitialErrorMessage)
    /\ isLoading' = FALSE
    /\ UNCHANGED <<q, products, sessionId, suggestions, isRefinementOpen,
                   refinementOptions, panelVars>>

\* handleSendMessage, lines 93-106 and 118-120
SendMessageSucceeds(i) ==
    /\ i \in Pending /\ sent[i].handler = "send"
    /\ \E response \in Responses(sent[i]) :
        /\ products' = response.products
        /\ sessionId' = response.session_id
        /\ suggestions' = response.suggestions
        /\ messages' = Append(messages, SendAssistantMessage(response))
        /\ ApiSuccess(i, response)
    /\ isLoading' = FALSE
    /\ UNCHANGED <<q, isRefinementOpen, refinementOptions, panelVars>>

SendMessageFailsClearing(i) ==
    /\ i \in Pending /\ sent[i].handler = "send"
    /\ \E cause \in TransportFailures : ApiFailure(i, cause, SendErrorMessage)
    /\ messages' = Append(messages, SendErrorMessage)
    /\ products' = <<>>
    /\ isLoading' = FALSE
    /\ UNCHANGED <<q, sessionId, suggestions, isRefinementOpen,
                   refinementOptions, panelVars>>

SendMessageFailsRetrying(i) ==
    /\ i \in Pending /\ sent[i].handler = "send"
    /\ \E cause \in TransportFailures :
        sent' = Append([sent EXCEPT ![i].outcome = "failed",
                                    ![i].cause = cause,
                                    ![i].error = ApiError(sent[i].op, cause),
                                    ![i].shown = SendErrorMessage.content],
                       [sent[i] EXCEPT !.outcome = "pending"])
    /\ messages' = Append(messages, SendErrorMessage)
    /\ isLoading' = FALSE
    /\ UNCHANGED <<q, products, sessionId, suggestions, isRefinementOpen,
                   refinementOptions, panelVars, nextSid, delivered>>

\* handleSendMessage, lines 107-120
SendMessageFails(i) ==
    /\ i \in Pending /\ sent[i].handler = "send"
    /\ \E cause \in TransportFailures : ApiFailure(i, cause, SendErrorMessage)
    /\ messages' = Append(messages, SendErrorMessage)
    /\ isLoading' = FALSE
    /\ UNCHANGED <<q, products, sessionId, suggestions, isRefinementOpen,
                   refinementOptions, panelVars>>

\* handleApplyRefinements, lines 168-180 and 192-194
ApplyRefinementsSucceeds(i) ==
    /\ i \in Pending /\ sent[i].handler = "apply"
    /\ \E response \in Responses(sent[i]) :
        /\ products' = response.products
        /\ suggestions' = response.suggestions
        /\ messages' = Append(messages, ApplyAssistantMessage(response))
        /\ ApiSuccess(i, response)
    /\ isLoading' = FALSE
    /\ UNCHANGED <<q, sessionId, isRefinementOpen, refinementOptions, panelVars>>

ApplyRefinementsFailsNoFinally(i) ==
    /\ i \in Pending /\ sent[i].handler = "apply"
    /\ \E cause \in TransportFailures : ApiFailure(i, cause, ApplyErrorMessage)
    /\ messages' = Append(messages, ApplyErrorMessage)
    /\ UNCHANGED <<q, products, isLoading, sessionId, suggestions,
                   isRefinementOpen, refinementOptions, panelVars>>

\* handleApplyRefinements, lines 181-194
ApplyRefinementsFails(i) ==
    /\ i \in Pending /\ sent[i].handler = "apply"
    /\ \E cause \in TransportFailures : ApiFailure(i, cause, ApplyErrorMessage)
    /\ messages' = Append(messages, ApplyErrorMessage)
    /\ isLoading' = FALSE
    /\ UNCHANGED <<q, products, sessionId, suggestions, isRefinementOpen,
                   refinementOptions, panelVars>>

----------------------------------------------------------------------------
\* search.tsx, lines 252-281: what the products column renders.

\* lines 253-263: the "No products yet" placeholder
NoProductsPlaceholder == Len(products) = 0 /\ ~isLoading

\* lines 265-270: the spinner
ProductsSpinner == isLoading /\ Len(products) = 0

\* lines 272-280: one ProductCard per product, in order
ProductCards == [k \in 1..Len(products) |-> products[k]]

----------------------------------------------------------------------------
\* User and router events.

\* search.tsx, lines 13 and 23-27: the router reports another q; the effect
\* runs because its dependency changed and starts the initial search when q
\* is a non-empty string
RouteChange(newq) ==
    /\ newq # q
    /\ q' = newq
    /\ IF newq # ""
       THEN Len(sent) < MaxCalls /\ HandleInitialSearch(newq)
       ELSE UNCHANGED <<messages, products, isLoading, sessionId, suggestions,
                        refinementOptions, netVars>>
    /\ UNCHANGED <<isRefinementOpen, panelVars>>

\* ChatInterface.tsx, handleSubmit, lines 32-38 (the text in the input is
\* the one just typed; the input is cleared afterwards)
SubmitChat(inputValue) ==
    /\ Trim(inputValue) # "" /\ ~isLoading
    /\ Len(sent) < MaxCalls
    /\ HandleSendMessage(Trim(inputValue))
    /\ UNCHANGED <<q, isRefinementOpen, panelVars>>

\* ChatInterface.tsx, lines 40-45 and 112-124: the suggestion buttons are
\* rendered only while not loading; search.tsx, handleSuggestionClick
ClickSuggestion(k) ==
    /\ k \in 1..Len(suggestions) /\ ~isLoading
    /\ Len(sent) < MaxCalls
    /\ HandleSendMessage(suggestions[k])
    /\ UNCHANGED <<q, isRefinementOpen, panelVars>>

\* search.tsx, handleRefineSearch, lines 127-129
OpenPanel ==
    /\ ~isRefinementOpen
    /\ isRefinementOpen' = TRUE
    /\ UNCHANGED <<q, messages, products, isLoading, sessionId, suggestions,
                   refinementOptions, panelVars, netVars>>

\* search.tsx, line 290: onClose (the panel's X and Cancel buttons)
ClosePanel ==
    /\ isRefinementOpen
    /\ isRefinementOpen' = FALSE
    /\ UNCHANGED <<q, messages, products, isLoading, sessionId, suggestions,
                   refinementOptions, panelVars, netVars>>

\* RefinementPanel, lines 203-223: the two price inputs' onChange
SetPriceMin(v) ==
    /\ isRefinementOpen
    /\ priceRange' = [priceRange EXCEPT !.min = v]
    /\ UNCHANGED <<pageVars, newFeature, features, verifiedOnly, netVars>>

SetPriceMax(v) ==
    /\ isRefinementOpen
    /\ priceRange' = [priceRange EXCEPT !.max = v]
    /\ UNCHANGED <<pageVars, newFeature, features, verifiedOnly, netVars>>

\* RefinementPanel, line 243: the feature input's onChange
TypeFeature(text) ==
    /\ isRefinementOpen
    /\ newFeature' = text
    /\ UNCHANGED <<pageVars, priceRange, features, verifiedOnly, netVars>>

HandleAddFeatureUnchecked ==
    /\ isRefinementOpen
    /\ IF Trim(newFeature) # ""
       THEN /\ features' = Append(features, Trim(newFeature))
            /\ newFeature' = ""
       ELSE UNCHANGED <<features, newFeature>>
    /\ UNCHANGED <<pageVars, priceRange, verifiedOnly, netVars>>

\* RefinementPanel, handleAddFeature, lines 145-150 (Add button or Enter)
HandleAddFeature ==
    /\ isRefinementOpen
    /\ IF Trim(newFeature) # "" /\ ~Includes(features, Trim(newFeature))
       THEN /\ features' = Append(features, Trim(newFeature))
            /\ newFeature' = ""
       ELSE UNCHANGED <<features, newFeature>>
    /\ UNCHANGED <<pageVars, priceRange, verifiedOnly, netVars>>

\* RefinementPanel, handleRemoveFeature, lines 152-154 and 259-272
HandleRemoveFeature(k) ==
    /\ isRefinementOpen
    /\ k \in 1..Len(features)
    /\ features' = FilterOut(features, features[k])
    /\ UNCHANGED <<pageVars, priceRange, newFeature, verifiedOnly, netVars>>

\* RefinementPanel, line 282: the checkbox's onChange
SetVerifiedOnly(checked) ==
    /\ isRefinementOpen
    /\ verifiedOnly' = checked
    /\ UNCHANGED <<pageVars, priceRange, newFeature, features, netVars>>

\* RefinementPanel, handleApply, lines 156-163
PanelOptions ==
    [price_range |-> priceRange, features |-> features,
     verified_reviews_only |-> verifiedOnly]

HandleApply ==
    /\ isRefinementOpen
    /\ Len(sent) < MaxCalls
    /\ HandleApplyRefinements(PanelOptions)
    /\ isRefinementOpen' = FALSE
    /\ UNCHANGED <<q, panelVars>>

----------------------------------------------------------------------------
\* The page session: route changes, chat submissions, suggestion clicks, the
\* panel opened, closed and applied with the contents it holds, and the
\* completion of every call, in any order.

Init == PageInit

\* positions in the suggestion list, the panel's feature list and the calls
SuggestionSlots == UNION {DOMAIN sg : sg \in SuggestionLists}
FeatureSlots == 1..Cardinality(FeatureInputs)
CallSlots == 1..MaxCalls

Next ==
    \/ \E newq \in QueryValues : RouteChange(newq)
    \/ \E inputValue \in ChatInputs : SubmitChat(inputValue)
    \/ \E k \in SuggestionSlots : ClickSuggestion(k)
    \/ OpenPanel
    \/ ClosePanel
    \/ HandleApply
    \/ \E i \in CallSlots : InitialSearchSucceeds(i)
    \/ \E i \in CallSlots : InitialSearchFails(i)
    \/ \E i \in CallSlots : SendMessageSucceeds(i)
    \/ \E i \in CallSlots : SendMessageFails(i)
    \/ \E i \in CallSlots : ApplyRefinementsSucceeds(i)
    \/ \E i \in CallSlots : ApplyRefinementsFails(i)

Spec == Init /\ [][Next]_vars

\* some outstanding call returns or throws
Completes ==
    \E i \in CallSlots :
        \/ InitialSearchSucceeds(i) \/ InitialSearchFails(i)
        \/ SendMessageSucceeds(i) \/ SendMessageFails(i)
        \/ ApplyRefinementsSucceeds(i) \/ ApplyRefinementsFails(i)

\* api.ts, line 8: a POST that is not answered is aborted after 30000 ms, so
\* every outstanding call completes
LiveSpec == Init /\ [][Next]_vars /\ WF_vars(Completes)

----------------------------------------------------------------------------
\* The refinement panel: its inputs edited in any order, the panel applied,
\* and the completion of the refine calls.

PanelEdit ==
    \/ OpenPanel
    \/ ClosePanel
    \/ \E v \in PriceInputs : SetPriceMin(v)
    \/ \E v \in PriceInputs : SetPriceMax(v)
    \/ \E text \in FeatureInputs : TypeFeature(text)
    \/ HandleAddFeature
    \/ \E k \in FeatureSlots : HandleRemoveFeature(k)
    \/ \E checked \in BOOLEAN : SetVerifiedOnly(checked)

\* the panel's Apply button, for the refinements explored here
ApplyPanel == Len(sent) < MaxApplies /\ HandleApply

PanelNext ==
    \/ PanelEdit
    \/ ApplyPanel
    \/ \E i \in CallSlots : ApplyRefinementsSucceeds(i)
    \/ \E i \in CallSlots : ApplyRefinementsFails(i)

PanelSpec == Init /\ [][PanelNext]_vars

----------------------------------------------------------------------------
\* The panel's feature list: texts typed with and without surrounding
\* blanks, added and removed in any order.

FeatureTexts == {"", "  ", "rgb", " rgb", "usb ", " wireless "}

ChipSlots == 1..Cardinality({Trim(text) : text \in FeatureTexts} \ {""})

FeatureNext ==
    \/ OpenPanel
    \/ ClosePanel
    \/ \E text \in FeatureTexts : TypeFeature(text)
    \/ HandleAddFeature
    \/ \E k \in ChipSlots : HandleRemoveFeature(k)

FeatureSpec == Init /\ [][FeatureNext]_vars

----------------------------------------------------------------------------
\* The refinement query as a function of its argument: handleApplyRefinements
\* takes any Partial<RefinementOptions>.

PriceParts ==
    {EmptyObject} \cup
    {[price_range |-> [min |-> lo, max |-> hi]] : lo \in QueryPrices, hi \in QueryPrices}

FeatureParts ==
    {EmptyObject} \cup
    {[features |-> f] : f \in UNION {[1..n -> QueryFeatures] : n \in 0..MaxFeatureCount}}

VerifiedParts ==
    {EmptyObject} \cup {[verified_reviews_only |-> b] : b \in BOOLEAN}

OptionInputs ==
    {p @@ f @@ v : p \in PriceParts, f \in FeatureParts, v \in VerifiedParts}

\* handleApplyRefinements called with the options given
ApplyRefinements(options) ==
    /\ Len(sent) < MaxApplies
    /\ HandleApplyRefinements(options)
    /\ UNCHANGED <<q, isRefinementOpen, panelVars>>

QueryNext == \E options \in OptionInputs : ApplyRefinements(options)

QuerySpec == Init /\ [][QueryNext]_vars

----------------------------------------------------------------------------
\* Successive refinements: handleApplyRefinements called again and again,
\* with options that leave fields out, each call completing either way.

RefinementInputs ==
    {EmptyObject,
     [verified_reviews_only |-> TRUE],
     [features |-> <<"wireless">>],
     [price_range |-> [min |-> 20, max |-> 100]],
     [price_range |-> [min |-> 0, max |-> 20], features |-> <<>>,
      verified_reviews_only |-> FALSE]}

Refine(options) ==
    /\ Len(sent) < MaxCalls
    /\ HandleApplyRefinements(options)
    /\ UNCHANGED <<q, isRefinementOpen, panelVars>>

RefineNext ==
    \/ \E options \in RefinementInputs : Refine(options)
    \/ \E i \in CallSlots : ApplyRefinementsSucceeds(i)
    \/ \E i \in CallSlots : ApplyRefinementsFails(i)

RefineSpec == Init /\ [][RefineNext]_vars

----------------------------------------------------------------------------
\* Properties of the page session.

Range(seq) == {seq[i] : i \in 1..Len(seq)}

Last(seq) == seq[Len(seq)]

AllSucceeded == \A i \in 1..Len(sent) : sent[i].outcome = "ok"

\* a step in which a handler issues its call
IssuesCall == Len(sent') = Len(sent) + 1

\* a step in which call i fails
FailsCall(i) == sent[i].outcome = "pending" /\ sent'[i].outcome = "failed"

ApologyMessages == {InitialErrorMessage, SendErrorMessage, ApplyErrorMessage}

SucceedsCall(i) == sent[i].outcome = "pending" /\ sent'[i].outcome = "ok"

\* C1: when every call has completed and none has failed, the transcript
\* holds two messages per submission made (one user, one assistant).
C1_TranscriptLength ==
    (Pending = {} /\ AllSucceeded) => Len(messages) = 2 * Len(sent)

\* C2: once a response has delivered a session id and the page holds it,
\* every call issued afterwards carries that id in its request.
C2_SessionIdCarried ==
    [][(Len(delivered) > 0 /\ sessionId = delivered[1] /\ IssuesCall)
        => /\ "session_id" \in DOMAIN Last(sent').req
           /\ Last(sent').req.session_id = delivered[1]]_vars

C4_SingleCallInFlight == Cardinality(Pending) <= 1

\* C5: a chat submission issues a refine carrying the stored session id when
\* one is stored, and a search without session id when none is stored.
C5_SearchOrRefine ==
    \A i \in 1..Len(sent) : sent[i].handler = "send" =>
        IF sent[i].sidAtIssue # ""
        THEN /\ sent[i].op = "refine"
             /\ "session_id" \in DOMAIN sent[i].req
             /\ sent[i].req.session_id = sent[i].sidAtIssue
        ELSE /\ sent[i].op = "search"
             /\ "session_id" \notin DOMAIN sent[i].req

\* C5 witness: one chat submission went out as a search with no session id
\* stored, a later one as a refine under the stored session id.
C5_Witness ==
    \E i, j \in 1..Len(sent) :
        /\ i < j
        /\ sent[i].handler = "send" /\ sent[i].op = "search"
        /\ sent[j].handler = "send" /\ sent[j].op = "refine"
        /\ sent[j].sidAtIssue # ""

\* C6: the session id of every refine request is one a response delivered
\* before, and a stored session id never changes to another value.
C6_SessionIdServerIssued ==
    /\ [](\A i \in 1..Len(sent) : sent[i].op = "refine" =>
            sent[i].req.session_id \in Range(delivered))
    /\ [][sessionId # "" => sessionId' = sessionId]_vars

----------------------------------------------------------------------------
\* Properties of the refinement query.

\* the clauses as the specification words them
PriceMarker == " with budget between $"
FeatureMarker == " including features: "
VerifiedMarker == " with verified reviews only"

\* decimal notation of the prices explored
PriceText(n) ==
    CASE n = 0 -> "0" [] n = 20 -> "20" [] n = 100 -> "100"

RECURSIVE CommaList(_)
CommaList(list) ==
    IF Len(list) = 1 THEN list[1]
    ELSE CommaList(SubSeq(list, 1, Len(list) - 1)) \o ", " \o list[Len(list)]

PriceGiven(options) == "price_range" \in DOMAIN options
FeaturesGiven(options) == "features" \in DOMAIN options /\ options.features # <<>>
FlagSet(options) ==
    "verified_reviews_only" \in DOMAIN options /\ options.verified_reviews_only = TRUE

\* the reference rendering of the options
ReferenceQuery(options) ==
    "Refine my search"
    \o (IF PriceGiven(options)
        THEN PriceMarker \o PriceText(options.price_range.min) \o " and $"
                \o PriceText(options.price_range.max)
        ELSE "")
    \o (IF FeaturesGiven(options)
        THEN FeatureMarker \o CommaList(options.features) ELSE "")
    \o (IF FlagSet(options) THEN VerifiedMarker ELSE "")

\* the positions at which part occurs in text
Positions(text, part) ==
    {i \in 1..(Len(text) - Len(part) + 1) :
        SubSeq(text, i, i + Len(part) - 1) = part}

Occurs(text, part) == Positions(text, part) # {}

\* the query of the refinement applied last; refinementOptions holds its options
LastQuery == Last(sent).req.query

ExampleOptions ==
    {[price_range |-> [min |-> 20, max |-> 100], features |-> <<"wireless">>],
     [price_range |-> [min |-> 20, max |-> 100], features |-> <<"wireless">>,
      verified_reviews_only |-> FALSE]}

ExampleQuery ==
    "Refine my search with budget between $20 and $100 including features: wireless"

\* C7: the refinement query equals the reference rendering of the options,
\* and for price bounds 20..100 with the one feature "wireless" and the flag
\* unset it is the example string of the specification.
C7_QueryIsReferenceRendering ==
    Len(sent) > 0 =>
        /\ LastQuery = ReferenceQuery(refinementOptions)
        /\ refinementOptions \in ExampleOptions => LastQuery = ExampleQuery

\* C7 witness: the example options have been applied and gave the example string.
C7_Witness ==
    /\ Len(sent) > 0
    /\ refinementOptions \in ExampleOptions
    /\ LastQuery = ExampleQuery

\* C8: with price range, a non-empty feature list and the verified flag all
\* given, the price clause comes before the feature clause, which comes
\* before the verified-reviews clause.
C8_ClauseOrder ==
    (Len(sent) > 0 /\ PriceGiven(refinementOptions)
        /\ FeaturesGiven(refinementOptions) /\ FlagSet(refinementOptions))
    => \E i \in Positions(LastQuery, PriceMarker) :
         \E j \in Positions(LastQuery, FeatureMarker) :
           \E k \in Positions(LastQuery, VerifiedMarker) : i < j /\ j < k

\* C8 witness: a refinement with all three options and two features applied.
C8_Witness ==
    /\ Len(sent) > 0
    /\ PriceGiven(refinementOptions) /\ FlagSet(refinementOptions)
    /\ FeaturesGiven(refinementOptions) /\ Len(refinementOptions.features) = 2
    /\ Occurs(LastQuery, VerifiedMarker)

\* C9: a clause whose option is absent or empty is left out, and with all
\* three absent or empty the query is exactly "Refine my search".
C9_ClausesOmitted ==
    Len(sent) > 0 =>
        /\ ~PriceGiven(refinementOptions) => ~Occurs(LastQuery, PriceMarker)
        /\ ~FeaturesGiven(refinementOptions) => ~Occurs(LastQuery, FeatureMarker)
        /\ ~FlagSet(refinementOptions) => ~Occurs(LastQuery, VerifiedMarker)
        /\ (~PriceGiven(refinementOptions) /\ ~FeaturesGiven(refinementOptions)
                /\ ~FlagSet(refinementOptions))
            => LastQuery = "Refine my search"

\* C9 witness: options with an empty feature list and a false flag, and no
\* price range, applied and rendered as the bare query.
C9_Witness ==
    /\ Len(sent) > 0
    /\ refinementOptions = [features |-> <<>>, verified_reviews_only |-> FALSE]
    /\ LastQuery = "Refine my search"

\* C10: a panel refinement appends a user message whose content is the query
\* field of the refine request it sends, both being the refinement string.
C10_MessageIsRequestQuery ==
    [][IssuesCall =>
        /\ Last(sent').handler = "apply" /\ Last(sent').op = "refine"
        /\ Len(messages') = Len(messages) + 1
        /\ Last(messages').type = "user"
        /\ Last(messages').content = Last(sent').req.query
        /\ Last(messages').content = ReferenceQuery(refinementOptions')]_vars

\* C10 witness: a refinement with features is in flight, its user message
\* last in the transcript.
C10_Witness ==
    /\ Len(sent) > 0 /\ Last(sent).outcome = "pending"
    /\ FeaturesGiven(refinementOptions)
    /\ Last(messages) = UserMessage(Last(sent).req.query)
    /\ Occurs(Last(messages).content, FeatureMarker)

----------------------------------------------------------------------------
\* C11: searchProducts and refineSearch either return the response body or
\* throw a failure that depends only on the operation: whatever made the
\* POST fail (no connection, timeout, a non-2xx status with a body), a failed
\* search carries 'Failed to search products' and a failed refine carries
\* 'Failed to refine search', and a call that has not failed carries no
\* error.
C11_GenericFailure ==
    \A i \in 1..Len(sent) :
        /\ sent[i].outcome \in {"pending", "ok", "failed"}
        /\ sent[i].outcome = "failed" =>
              /\ sent[i].cause \in TransportFailures
              /\ sent[i].error = IF sent[i].op = "search"
                                 THEN "Failed to search products"
                                 ELSE "Failed to refine search"
        /\ sent[i].outcome # "failed" => sent[i].error = ""

\* a search and a refine have both failed, one of them on a non-2xx status
\* whose body carried a text of its own
C11_Witness ==
    \E i, j \in 1..Len(sent) :
        /\ sent[i].outcome = "failed" /\ sent[i].op = "search"
        /\ sent[j].outcome = "failed" /\ sent[j].op = "refine"
        /\ sent[j].cause.kind = "status"
        /\ sent[j].error = "Failed to refine search"

----------------------------------------------------------------------------
\* C12: nothing is retried automatically. A step issues at most one request,
\* and only as part of a submission: the request issued is pending and
\* carries the user message the same step put last in the transcript. A
\* step in which a call fails, or any other step that is not a submission,
\* issues no request, and a call once completed is never touched again.
C12_NoAutomaticRetry ==
    [][/\ Len(sent') = Len(sent) \/ IssuesCall
       /\ IssuesCall =>
            /\ Last(sent').outcome = "pending"
            /\ isLoading'
            /\ Last(messages') = UserMessage(Last(sent').req.query)
       /\ \A i \in 1..Len(sent) :
            /\ i <= Len(sent')
            /\ sent'[i].req = sent[i].req /\ sent'[i].op = sent[i].op
            /\ sent[i].outcome # "pending" => sent'[i] = sent[i]
            /\ FailsCall(i) => Len(sent') = Len(sent)]_vars

\* the only call made has failed, its apology is shown, and nothing else
\* has been sent
C12_Witness ==
    /\ Len(sent) = 1 /\ sent[1].outcome = "failed"
    /\ Len(messages) = 2 /\ Last(messages) \in ApologyMessages
    /\ ~isLoading

----------------------------------------------------------------------------
\* C13, as stated: the apology shown for a failed call is chosen by the
\* operation that failed, so any two failed calls of the same operation
\* show the same text, whichever handler issued them.
C13_ApologyByOperation ==
    \A i, j \in 1..Len(sent) :
        (/\ sent[i].outcome = "failed" /\ sent[j].outcome = "failed"
         /\ sent[i].op = sent[j].op)
        => sent[i].shown = sent[j].shown

\* the apology text of each handler's catch block
ApologyOf(handler) ==
    CASE handler = "initial" ->
           "Sorry, I encountered an error while searching for products. Please try again."
      [] handler = "send" ->
           "Sorry, I encountered an error. Please try rephrasing your request."
      [] handler = "apply" ->
           "Sorry, I had trouble refining your search. Please try again."

\* C13, amended: every failed call is shown as one of three static apology
\* messages, chosen by the handler that issued the call: the step in which
\* a call fails appends one assistant message whose text is that handler's
\* apology, whatever the operation and whatever failed.
C13_ApologyByHandler ==
    [][\A i \in 1..Len(sent) :
         FailsCall(i) =>
            /\ Len(messages') = Len(messages) + 1
            /\ Last(messages') =
                  [type |-> "assistant", content |-> ApologyOf(sent[i].handler)]
            /\ sent'[i].shown = ApologyOf(sent[i].handler)]_vars

\* two searches have failed, one issued by handleInitialSearch and one by
\* handleSendMessage, and they were shown with different texts
C13_Witness ==
    \E i, j \in 1..Len(sent) :
        /\ sent[i].outcome = "failed" /\ sent[i].op = "search"
        /\ sent[i].handler = "initial"
        /\ sent[j].outcome = "failed" /\ sent[j].op = "search"
        /\ sent[j].handler = "send"
        /\ sent[i].shown # sent[j].shown
        /\ Last(messages).content = sent[j].shown

----------------------------------------------------------------------------
\* C14: the transcript is append-only: in every step the transcript before
\* the step is a prefix of the transcript after it.
C14_TranscriptAppendOnly ==
    [][/\ Len(messages) <= Len(messages')
       /\ SubSeq(messages', 1, Len(messages)) = messages]_vars

----------------------------------------------------------------------------
\* the result message each handler shows for a response without products
EmptyResultTexts(handler) ==
    CASE handler = "initial" ->
           {"I found 0 great options for \"" \o qp
              \o "\". Here are the top recommendations based on reviews, price, and features."
              : qp \in ProcessedQueries}
      [] handler = "send" ->
           {"Updated search results! I found 0 products that match your refined criteria."}
      [] handler = "apply" ->
           {"Perfect! I've refined your search based on your preferences. Here are 0 updated recommendations."}

\* C15: when a call succeeds with an empty product list, the product list
\* becomes empty, no product card is rendered, and the one message appended
\* is the handler's normal result message reporting 0 products, carrying
\* the empty list: it is no apology.
C15_EmptyResultIsNoError ==
    [][\A i \in 1..Len(sent) :
         (SucceedsCall(i) /\ Len(products') = 0) =>
            /\ ProductCards' = <<>>
            /\ NoProductsPlaceholder' /\ ~ProductsSpinner'
            /\ Len(messages') = Len(messages) + 1
            /\ SubSeq(messages', 1, Len(messages)) = messages
            /\ Last(messages').type = "assistant"
            /\ Last(messages').content \in EmptyResultTexts(sent[i].handler)
            /\ Last(messages').products = <<>>
            /\ Last(messages').content \notin
                  {ApologyOf(h) : h \in {"initial", "send", "apply"}}]_vars

\* products were shown, then a chat call succeeded with an empty list: the
\* list is empty and the last message reports 0 products
C15_Witness ==
    /\ Len(sent) = 2 /\ sent[2].outcome = "ok" /\ sent[2].handler = "send"
    /\ sent[1].outcome = "ok"
    /\ Len(messages) = 4 /\ "products" \in DOMAIN messages[2]
    /\ messages[2].products # <<>>
    /\ products = <<>>
    /\ Last(messages).content \in EmptyResultTexts("send")

----------------------------------------------------------------------------
\* C16: after handleApplyRefinements(options) the stored refinement options
\* are exactly the options of the latest call, with no field of any earlier
\* refinement left in them, while that call is in flight and after it has
\* succeeded or failed.
C16_StoredOptionsAreLastApplied ==
    Len(sent) > 0 =>
        /\ refinementOptions = Last(sent).args
        /\ DOMAIN refinementOptions = DOMAIN Last(sent).args

\* a refinement with features was followed by one without, which failed:
\* the stored options have no features field
C16_Witness ==
    /\ Len(sent) = 2
    /\ "features" \in DOMAIN sent[1].args
    /\ "features" \notin DOMAIN sent[2].args
    /\ sent[1].outcome = "ok" /\ sent[2].outcome = "failed"
    /\ "features" \notin DOMAIN refinementOptions
    /\ refinementOptions # EmptyObject

----------------------------------------------------------------------------
----------------------------------------------------------------------------
\* C18: in every reachable state the loading flag is true whenever a call
\* is still outstanding.
C18_LoadingWhileInFlight == Pending # {} => isLoading

----------------------------------------------------------------------------
\* the product list of the last message of the transcript that carries one
CarriesProducts(message) == "products" \in DOMAIN message

LastProductsShown ==
    LET carrying == {k \in 1..Len(messages) : CarriesProducts(messages[k])}
    IN  IF carrying = {} THEN <<>>
        ELSE messages[CHOOSE k \in carrying : \A j \in carrying : j <= k].products

\* C19: whenever no call is in flight, the current product list is the list
\* attached to the last assistant message that carries products, and it is
\* empty when the transcript has no such message.
C19_ProductsMatchTranscript == Pending = {} => products = LastProductsShown

----------------------------------------------------------------------------
----------------------------------------------------------------------------
\* what trimming a text gives, said without computing it: the text is
\* blanks, then t, then blanks, and t neither starts nor ends with a blank
IsTrimOf(t, s) ==
    \E a, b \in 0..Len(s) :
        /\ a + b <= Len(s)
        /\ t = SubSeq(s, a + 1, Len(s) - b)
        /\ \A k \in 1..a : SubSeq(s, k, k) = " "
        /\ \A k \in (Len(s) - b + 1)..Len(s) : SubSeq(s, k, k) = " "
        /\ t # "" => (SubSeq(t, 1, 1) # " " /\ SubSeq(t, Len(t), Len(t)) # " ")

NoDuplicates(list) ==
    \A i, j \in 1..Len(list) : list[i] = list[j] => i = j

NoBlanks(list) ==
    \A i \in 1..Len(list) : list[i] # "" /\ IsTrimOf(list[i], list[i])

\* a step that adds: the trimmed input, which is not empty and not yet in
\* the list, is put last and the input is cleared
AddsFeature ==
    \E t \in {Trim(text) : text \in FeatureTexts} :
        /\ IsTrimOf(t, newFeature)
        /\ t # "" /\ t \notin Range(features)
        /\ features' = Append(features, t)
        /\ newFeature' = ""

\* a step that removes: every occurrence of one entry is gone and the
\* other entries keep their order
RemovesFeature ==
    \E k \in 1..Len(features) :
        /\ features' = SelectSeq(features, LAMBDA f : f # features[k])
        /\ features[k] \notin Range(features')
        /\ UNCHANGED newFeature

\* C21: after any sequence of add-feature and remove-feature actions the
\* panel's feature list has no duplicate and no blank entry, and every step
\* that changes the list is an add of the trimmed input (never of an empty
\* or already listed text) or the removal of all occurrences of one entry,
\* in order.
C21_FeatureListWellFormed ==
    /\ [](NoDuplicates(features) /\ NoBlanks(features))
    /\ [][features' # features => (AddsFeature \/ RemovesFeature)]_vars
    /\ [][(\A t \in Range(features) \cup {""} : ~IsTrimOf(t, newFeature))
            \/ Len(features') <= Len(features)]_vars

\* three features were added, the first was removed, and the input holds a
\* text that trims to one already listed
C21_Witness ==
    /\ features = <<"usb", "wireless">>
    /\ newFeature = "usb "
    /\ isRefinementOpen

====
